---- MODULE Spec2Model ----
(***************************************************************************)
(* Model of the Accsyn send action (src/action.py): the synchronous launch *)
(* handler and the worker thread it starts (AccsynSendAction.run), with    *)
(* the tracking platform (ftrack) and the transfer engine (Accsyn) as the  *)
(* environment.  Strings that the code searches or slices (paths, the      *)
(* project code) are sequences of one-character strings.                   *)
(***************************************************************************)
EXTENDS Integers, Sequences, FiniteSets, TLC

\* ------------------------------------------------------------------ bounds
\* Largest number of selected entities in a launch event.
MaxSel == 2
\* Largest number of characters of a raw path drawn from PathChars.
MaxLen == 4

\* ------------------------------------------------------------------ values
None == "None"

\* excluded_locations, set in __init__.
excluded_locations ==
    {"ftrack.origin", "ftrack.connect", "ftrack.unmanaged", "ftrack.server",
     "ftrack.review"}

\* Locations registered in the tracking platform; "ghost" is a name a
\* request may carry that no Location has.
Locations == {"studio-a", "studio-b", "ftrack.unmanaged"}
LocNames == {"studio-a", "studio-b", "ghost"}

\* Components and the single project they belong to.
Components == {"c1", "c2"}
ProjectId == "P"
\* project['name'], the project code searched for in the paths: "Sh".
ProjectName == <<"S", "h">>

\* Raw paths known to the platform and lines a user may type.
PathA == <<"/", "S", "h", "/", "a">>
PathB == <<"s", "H", "/", "S", "h">>
PathX == <<"/", "x">>
LineOk == <<"/", "s", "h", "/", "b">>
LineBad == <<"x">>
LineBlank == <<" ">>

\* ------------------------------------------------------- string functions
\* str.lower() on the alphabet of the model, character by character.  "Idot"
\* is U+0130 (capital I with dot above), the one character whose lowercase
\* is two characters: "i" and "dot" (U+0307, the combining dot above).
LowerChar(ch) ==
    CASE ch = "S" -> <<"s">>
      [] ch = "H" -> <<"h">>
      [] ch = "Idot" -> <<"i", "dot">>
      [] OTHER -> <<ch>>

RECURSIVE LowerFrom(_, _)
LowerFrom(s, k) ==
    IF k > Len(s) THEN <<>> ELSE LowerChar(s[k]) \o LowerFrom(s, k + 1)

\* str.lower(): the lowercase of every character, in order.
Lower(s) == LowerFrom(s, 1)

SetMin(S) == CHOOSE m \in S : \A n \in S : m <= n

\* str.find(): the lowest 0-based index at which t occurs in s, or -1.
Find(s, t) ==
    LET hits == {k \in 0..(Len(s) - Len(t)) : SubSeq(s, k + 1, k + Len(t)) = t}
    IN  IF hits = {} THEN -1 ELSE SetMin(hits)

\* s[idx:]
From(s, idx) == SubSeq(s, idx + 1, Len(s))

\* idx = p_raw.lower().find(project['name'].lower())
ProjectIdx(p_raw, name) == Find(Lower(p_raw), Lower(name))

\* 0 < len(text.strip()) for a text given as its lines (text.split('\n')).
IsBlankLine(l) == \A k \in 1..Len(l) : l[k] = " "
StripNonEmpty(lines) == \E k \in 1..Len(lines) : ~IsBlankLine(lines[k])

\* ------------------------------------------------- tracking-platform data
\* The entities a user can select: a project, a list and two tasks.
Entities ==
    { [entityType |-> "show", entityId |-> "P"],
      [entityType |-> "list", entityId |-> "L"],
      [entityType |-> "task", entityId |-> "T"],
      [entityType |-> "task", entityId |-> "E"] }

\* 'Component where version.asset.parent.project_id is "<id>"'
ProjectComponents(id) == IF id = ProjectId THEN <<"c1", "c2">> ELSE <<>>

\* 'Component where version.asset.parent.id is "<id>" or ... or version.id is
\* "<id>"': the components beneath an entity or a list member.
AncestryComponents(id) ==
    CASE id = "T" -> <<"c2">>
      [] id = "m1" -> <<"c1">>
      [] id = "m2" -> <<"c1">>
      [] OTHER -> <<>>

\* 'List where id is "<id>"'
ListRecord(id) == [items |-> <<"m1", "m2">>]

ListMembers(list_) ==
    IF "items" \in DOMAIN list_ THEN list_.items
    ELSE list_.review_session_objects

\* A ComponentLocationRecord: the location, the path its filesystem-path
\* lookup yields, and whether that lookup raises.
Rec(l, p) == [location |-> l, path |-> p, raises |-> FALSE]
Broken(l) == [location |-> l, path |-> <<>>, raises |-> TRUE]

\* The location records a component may start with, in stored order.
OnlyA == << Rec("studio-a", PathA) >>
BThenA == << Rec("studio-b", PathB), Rec("studio-a", PathA) >>
OnlyUnmanaged == << Rec("ftrack.unmanaged", PathA) >>
BrokenThenX == << Broken("studio-a"), Rec("studio-b", PathX) >>
EmptyThenB == << Rec("studio-a", <<>>), Rec("studio-b", PathA) >>
BrokenThenB == << Broken("studio-a"), Rec("studio-b", PathB) >>
OnlyBroken == << Broken("studio-a") >>

\* The platform's ComponentLocationRecords when the action is launched.
Worlds ==
    { [c1 |-> OnlyA, c2 |-> OnlyA],
      [c1 |-> BThenA, c2 |-> OnlyA],
      [c1 |-> OnlyUnmanaged, c2 |-> BThenA],
      [c1 |-> BrokenThenX, c2 |-> BThenA],
      [c1 |-> EmptyThenB, c2 |-> OnlyUnmanaged],
      [c1 |-> BrokenThenX, c2 |-> OnlyUnmanaged],
      [c1 |-> OnlyBroken, c2 |-> BrokenThenB] }

\* The additional-files texts a request may carry, as their lines.
AdditionalTexts ==
    { << <<>> >>, << LineBad >>, << LineBlank, LineOk, LineBad >> }

\* ------------------------------------------------------ Entity Resolver
RECURSIVE FlatComponents(_, _)
\* all_components.extend(...) for every member of a list (lines 304-316).
FlatComponents(members, k) ==
    IF k > Len(members) THEN <<>>
    ELSE AncestryComponents(members[k]) \o FlatComponents(members, k + 1)

\* The components one selected entity adds (lines 289-328).
EntityComponents(entity) ==
    IF entity.entityType = "show" THEN ProjectComponents(entity.entityId)
    ELSE IF entity.entityType = "list"
         THEN FlatComponents(ListMembers(ListRecord(entity.entityId)), 1)
         ELSE AncestryComponents(entity.entityId)

RECURSIVE Harvest(_, _)
\* all_components after the loop over the selection (lines 287-328).
Harvest(entities, k) ==
    IF k > Len(entities) THEN <<>>
    ELSE EntityComponents(entities[k]) \o Harvest(entities, k + 1)

\* project_id after the loop: the id of the last selected project, else None.
HarvestProject(entities) ==
    LET shows == {k \in 1..Len(entities) : entities[k].entityType = "show"}
    IN  IF shows = {} THEN None
        ELSE entities[CHOOSE k \in shows : \A n \in shows : n <= k].entityId

\* -------------------------------------------------------- Path Resolver
RECURSIVE ScanLocationsNoBreak(_, _, _)
\* ScanLocations without the break at line 363.
ScanLocationsNoBreak(recs, k, p_raw) ==
    IF k > Len(recs) THEN p_raw
    ELSE IF recs[k].location \in excluded_locations
         THEN ScanLocationsNoBreak(recs, k + 1, p_raw)
         ELSE IF recs[k].raises
              THEN ScanLocationsNoBreak(recs, k + 1, p_raw)
              ELSE IF 0 < Len(recs[k].path)
                   THEN ScanLocationsNoBreak(recs, k + 1, recs[k].path)
                   ELSE ScanLocationsNoBreak(recs, k + 1, recs[k].path)

RECURSIVE ScanLocations(_, _, _)
\* The loop over component['component_locations'] (lines 350-363): p_raw
\* when the loop ends.  An absent path (None) is the empty sequence.
ScanLocations(recs, k, p_raw) ==
    IF k > Len(recs) THEN p_raw
    ELSE IF recs[k].location \in excluded_locations
         THEN ScanLocations(recs, k + 1, p_raw)
         ELSE IF recs[k].raises
              THEN ScanLocations(recs, k + 1, p_raw)
              ELSE IF 0 < Len(recs[k].path)
                   THEN recs[k].path
                   ELSE ScanLocations(recs, k + 1, recs[k].path)

\* The tuple (component, p, p_raw) appended at lines 384 and 391.
Item(component, p_raw, name) ==
    [component |-> component,
     p |-> From(p_raw, ProjectIdx(p_raw, name)),
     p_raw |-> p_raw]

RECURSIVE ResolveComponentsStrict(_, _, _, _)
\* ResolveComponents taking a match at the start of the path for no match.
ResolveComponentsStrict(all, k, cl, name) ==
    IF k > Len(all) THEN <<>>
    ELSE LET p_raw == ScanLocations(cl[all[k]], 1, <<>>)
             rest == ResolveComponentsStrict(all, k + 1, cl, name)
         IN  IF Len(p_raw) = 0 THEN rest
             ELSE IF 0 < ProjectIdx(p_raw, name)
                  THEN <<Item(all[k], p_raw, name)>> \o rest
                  ELSE rest

RECURSIVE ResolveComponents(_, _, _, _)
\* components_and_paths after the loop over all_components (lines 348-384).
ResolveComponents(all, k, cl, name) ==
    IF k > Len(all) THEN <<>>
    ELSE LET p_raw == ScanLocations(cl[all[k]], 1, <<>>)
             rest == ResolveComponents(all, k + 1, cl, name)
         IN  IF Len(p_raw) = 0 THEN rest
             ELSE IF 0 <= ProjectIdx(p_raw, name)
                  THEN <<Item(all[k], p_raw, name)>> \o rest
                  ELSE rest

RECURSIVE ResolveLines(_, _, _)
\* The items the additional-file lines add (lines 387-395).
ResolveLines(lines, k, name) ==
    IF k > Len(lines) THEN <<>>
    ELSE LET rest == ResolveLines(lines, k + 1, name)
         IN  IF 0 < Len(lines[k]) /\ 0 <= ProjectIdx(lines[k], name)
             THEN <<Item(None, lines[k], name)>> \o rest
             ELSE rest

\* components_and_paths at line 397.
Resolve(all, cl, lines, name) ==
    ResolveComponents(all, 1, cl, name)
        \o (IF StripNonEmpty(lines) THEN ResolveLines(lines, 1, name) ELSE <<>>)

\* ---------------------------------------------------------- Job Builder
\* source_party / destination_party (lines 423-430); none of the location
\* names of the model holds an "@".
HasAt(name) == FALSE
Party(name) == IF HasAt(name) THEN <<name>> ELSE <<"site=", name>>

\* accsyn_job_data['tasks'] after the loop at lines 415-436.
Tasks(items, src, dst) ==
    [k \in 1..Len(items) |->
        [source |-> <<Party(src), items[k].p>>, destination |-> Party(dst)]]

\* FirstAt for a query that does not name the location.
FirstAtAny(recs, loc) == IF recs = <<>> THEN 0 ELSE 1

\* ---------------------------------------------------- Location Reconciler
\* 'ComponentLocation where component.id=... and location.id=...'.first():
\* the index of the first record of the component at the location, or 0.
FirstAt(recs, loc) ==
    LET hits == {k \in 1..Len(recs) : recs[k].location = loc}
    IN  IF hits = {} THEN 0 ELSE SetMin(hits)

\* session.delete(cl)
Remove(recs, k) == SubSeq(recs, 1, k - 1) \o SubSeq(recs, k + 1, Len(recs))

\* The record deleted when found (lines 453-457 and 494-498).
DeleteIfFound(recs, loc) ==
    IF FirstAt(recs, loc) = 0 THEN recs ELSE Remove(recs, FirstAt(recs, loc))

\* The new record holding the relative path instead of the raw one.
NewRecordRelative(item, loc) == Rec(loc, item.p)
\* session.create('ComponentLocation', ...) at lines 499-505.
NewRecord(item, loc) == Rec(loc, item.p_raw)

\* ------------------------------------------------------------------ state
VARIABLES
    event,                \* the launch event: selection and values
    response,             \* what launch returned
    pc,                   \* the worker thread's position in run
    job,                  \* the TrackingJobRecord held by the worker's session
    committed,            \* the record's status as committed to the platform
    job_final_status,     \* run's local of that name
    all_components,       \* run's local of that name
    project_id,           \* run's local of that name
    components_and_paths, \* run's local of that name
    accsyn_job_data,      \* the tasks of the job specification being built
    i,                    \* index of the reconciliation loops
    component_locations,  \* the platform's ComponentLocationRecords
    accsyn,               \* the transfer engine's job: status and tasks
    notes,                \* messages published to the invoking user
    log,                  \* history: the worker's writes, in order
    faulted,              \* history: some platform or engine call raised
    pending               \* an exception is propagating out of run

vars ==
    <<event, response, pc, job, committed, job_final_status, all_components,
      project_id, components_and_paths, accsyn_job_data, i,
      component_locations, accsyn, notes, log, faulted, pending>>

NoJob == [status |-> "none", description |-> "none"]
NoResponse == [kind |-> "none", success |-> FALSE, message |-> "", items |-> {}]
NoAccsynJob == [status |-> "none", tasks |-> <<>>]
\* The locals all_components and components_and_paths before they are bound.
Unbound == <<"unbound">>
UnboundItems == <<[component |-> "unbound", p |-> <<>>, p_raw |-> <<>>]>>

TerminalStatuses == {"done", "failed", "aborted"}
EngineStatuses == {"running"} \cup TerminalStatuses

RECURSIVE SeqsUpTo(_, _)
SeqsUpTo(S, n) ==
    IF n = 0 THEN {<<>>}
    ELSE LET shorter == SeqsUpTo(S, n - 1)
         IN  shorter \cup {Append(q, x) : q \in {r \in shorter : Len(r) = n - 1}, x \in S}

\* The launch events: with the values of the form, or without (first call).
Events ==
    { [selection |-> sel, hasValues |-> TRUE,
       values |-> [source_location |-> src, destination_location |-> dst,
                   additional_files |-> txt]] :
        sel \in SeqsUpTo(Entities, MaxSel), src \in LocNames, dst \in LocNames,
        txt \in AdditionalTexts }
    \cup
    { [selection |-> sel, hasValues |-> FALSE,
       values |-> [source_location |-> "", destination_location |-> "",
                   additional_files |-> << <<>> >>]] :
        sel \in SeqsUpTo(Entities, MaxSel) }

source_location_name == event.values.source_location
destination_location_name == event.values.destination_location

Init ==
    /\ event \in Events
    /\ component_locations \in Worlds
    /\ response = NoResponse
    /\ pc = "idle"
    /\ job = NoJob
    /\ committed = "none"
    /\ job_final_status = "none"
    /\ all_components = Unbound
    /\ project_id = None
    /\ components_and_paths = UnboundItems
    /\ accsyn_job_data = <<>>
    /\ i = 0
    /\ accsyn = NoAccsynJob
    /\ notes = <<>>
    /\ log = <<>>
    /\ faulted = FALSE
    /\ pending = FALSE

\* --------------------------------------------------------- Job Reporter
\* info(s) and warning(s): the description written when the job exists.
Info(j, s) == IF j = NoJob THEN j ELSE [j EXCEPT !.description = s]

\* web_message(s)
WebMessage(ns, s) == Append(ns, s)

\* History entries: "submit", "poll" (the first poll), "terminal" (the poll
\* that saw a terminal status), "delete", "create", "itemfail" (a platform
\* call of one item's reconciliation after the transfer raised), "status".
Ev(e, c) == [ev |-> e, c |-> c]
Polled(l) ==
    IF \E k \in 1..Len(l) : l[k].ev = "poll" THEN l ELSE Append(l, Ev("poll", None))

\* launch without the comparison of the two location names.
launch_unchecked ==
    /\ pc = "idle"
    /\ response = NoResponse
    /\ IF event.hasValues
       THEN IF FALSE
            THEN /\ response' = [NoResponse EXCEPT !.kind = "result",
                                    !.message = "Source and destination location are the same!"]
                 /\ pc' = pc
            ELSE /\ response' = [NoResponse EXCEPT !.kind = "result",
                                    !.success = TRUE,
                                    !.message = "Component transfer initiated"]
                 /\ pc' = "run"
       ELSE /\ response' = [NoResponse EXCEPT !.kind = "form",
                               !.items = Locations \ excluded_locations]
            /\ pc' = pc
    /\ UNCHANGED <<event, job, committed, job_final_status, all_components,
                   project_id, components_and_paths, accsyn_job_data, i,
                   component_locations, accsyn, notes, log, faulted, pending>>

\* ------------------------------------------------------------ the handler
\* launch: the form when the event carries no values; else the check of the
\* two location names and the start of the worker thread (lines 97-190).
launch ==
    /\ pc = "idle"
    /\ response = NoResponse
    /\ IF event.hasValues
       THEN IF source_location_name = destination_location_name
            THEN /\ response' = [NoResponse EXCEPT !.kind = "result",
                                    !.message = "Source and destination location are the same!"]
                 /\ pc' = pc
            ELSE /\ response' = [NoResponse EXCEPT !.kind = "result",
                                    !.success = TRUE,
                                    !.message = "Component transfer initiated"]
                 /\ pc' = "run"
       ELSE /\ response' = [NoResponse EXCEPT !.kind = "form",
                               !.items = Locations \ excluded_locations]
            /\ pc' = pc
    /\ UNCHANGED <<event, job, committed, job_final_status, all_components,
                   project_id, components_and_paths, accsyn_job_data, i,
                   component_locations, accsyn, notes, log, faulted, pending>>

\* ------------------------------------------------------------- the worker
\* Lines 196-260: the sessions, the running Job and its commit, outside the
\* try statement.  A failure here leaves run with no handler, and the
\* platform with no record.  info('Creating ftrack job..') at line 244 only
\* logs, since job is still None.
run_create ==
    /\ pc = "run"
    /\ \E ok \in BOOLEAN :
        IF ok
        THEN /\ job' = [status |-> "running",
                        description |-> "Initialising Accsyn send..."]
             /\ committed' = "running"
             /\ job_final_status' = "done"
             /\ pc' = "fetch"
             /\ UNCHANGED <<faulted, pending>>
        ELSE /\ pc' = "ended"
             /\ faulted' = TRUE
             /\ pending' = TRUE
             /\ UNCHANGED <<job, committed, job_final_status>>
    /\ UNCHANGED <<event, response, all_components, project_id,
                   components_and_paths, accsyn_job_data, i,
                   component_locations, accsyn, notes, log>>

\* Lines 263-278: the two Location queries; .one() raises when no Location
\* has the name.
run_fetch ==
    /\ pc = "fetch"
    /\ job' = Info(job, "Fetching locations..")
    /\ \E ok \in BOOLEAN :
        IF ok
        THEN /\ pc' = IF /\ source_location_name \in Locations
                         /\ destination_location_name \in Locations
                      THEN "harvest" ELSE "except"
             /\ UNCHANGED faulted
        ELSE /\ pc' = "except"
             /\ faulted' = TRUE
    /\ UNCHANGED <<event, response, committed, job_final_status,
                   all_components, project_id, components_and_paths,
                   accsyn_job_data, i, component_locations, accsyn, notes,
                   log, pending>>

\* Lines 280-328: the harvest of the components beneath the selection.
run_harvest ==
    /\ pc = "harvest"
    /\ job' = Info(job, "Harvesting components..")
    /\ \E ok \in BOOLEAN :
        IF ok
        THEN /\ all_components' = Harvest(event.selection, 1)
             /\ project_id' = HarvestProject(event.selection)
             /\ pc' = "check"
             /\ UNCHANGED faulted
        ELSE /\ pc' = "except"
             /\ faulted' = TRUE
             /\ UNCHANGED <<all_components, project_id>>
    /\ UNCHANGED <<event, response, committed, job_final_status,
                   components_and_paths, accsyn_job_data, i,
                   component_locations, accsyn, notes, log, pending>>

\* run_check without the assignment of 'failed' at line 332.
run_check_status_kept ==
    /\ pc = "check"
    /\ \E ok \in BOOLEAN :
        IF Len(all_components) = 0
        THEN /\ job' = Info(job, "No components found!")
             /\ UNCHANGED project_id
             /\ IF ok
                THEN /\ notes' = WebMessage(notes, "[ERROR] No components found!")
                     /\ job_final_status' = job_final_status
                     /\ pc' = "finally"
                     /\ UNCHANGED faulted
                ELSE /\ pc' = "except"
                     /\ faulted' = TRUE
                     /\ UNCHANGED <<notes, job_final_status>>
        ELSE /\ UNCHANGED <<notes, job_final_status>>
             /\ project_id' = IF project_id = None THEN ProjectId ELSE project_id
             /\ IF ok
                THEN /\ job' = Info(job, "Evaluating paths")
                     /\ pc' = "resolve"
                     /\ UNCHANGED faulted
                ELSE /\ job' = job
                     /\ pc' = "except"
                     /\ faulted' = TRUE
    /\ UNCHANGED <<event, response, committed, all_components,
                   components_and_paths, accsyn_job_data, i,
                   component_locations, accsyn, log, pending>>

\* Lines 330-345: the stop on an empty harvest, else the project's record.
run_check ==
    /\ pc = "check"
    /\ \E ok \in BOOLEAN :
        IF Len(all_components) = 0
        THEN /\ job' = Info(job, "No components found!")
             /\ UNCHANGED project_id
             /\ IF ok
                THEN /\ notes' = WebMessage(notes, "[ERROR] No components found!")
                     /\ job_final_status' = "failed"
                     /\ pc' = "finally"
                     /\ UNCHANGED faulted
                ELSE /\ pc' = "except"
                     /\ faulted' = TRUE
                     /\ UNCHANGED <<notes, job_final_status>>
        ELSE /\ UNCHANGED <<notes, job_final_status>>
             /\ project_id' = IF project_id = None THEN ProjectId ELSE project_id
             /\ IF ok
                THEN /\ job' = Info(job, "Evaluating paths")
                     /\ pc' = "resolve"
                     /\ UNCHANGED faulted
                ELSE /\ job' = job
                     /\ pc' = "except"
                     /\ faulted' = TRUE
    /\ UNCHANGED <<event, response, committed, all_components,
                   components_and_paths, accsyn_job_data, i,
                   component_locations, accsyn, log, pending>>

\* Lines 348-395: the raw and relative path of every component and of every
\* additional-file line.
run_resolve ==
    /\ pc = "resolve"
    /\ components_and_paths' =
           Resolve(all_components, component_locations,
                   event.values.additional_files, ProjectName)
    /\ pc' = "build"
    /\ UNCHANGED <<event, response, job, committed, job_final_status,
                   all_components, project_id, accsyn_job_data, i,
                   component_locations, accsyn, notes, log, faulted, pending>>

\* run_build without the assignment of 'failed' at line 400.
run_build_status_kept ==
    /\ pc = "build"
    /\ \E ok \in BOOLEAN :
        IF Len(components_and_paths) = 0
        THEN /\ job' = Info(job, "[ERROR] No components/additional files left")
             /\ UNCHANGED accsyn_job_data
             /\ IF ok
                THEN /\ notes' = WebMessage(notes,
                            "[ERROR] [ERROR] No components/additional files left")
                     /\ job_final_status' = job_final_status
                     /\ pc' = "finally"
                     /\ UNCHANGED faulted
                ELSE /\ pc' = "except"
                     /\ faulted' = TRUE
                     /\ UNCHANGED <<notes, job_final_status>>
        ELSE /\ job' = Info(job, "Building Accsyn job")
             /\ UNCHANGED <<notes, job_final_status>>
             /\ IF ok
                THEN /\ accsyn_job_data' =
                            Tasks(components_and_paths, source_location_name,
                                  destination_location_name)
                     /\ pc' = "submit"
                     /\ UNCHANGED faulted
                ELSE /\ pc' = "except"
                     /\ faulted' = TRUE
                     /\ UNCHANGED accsyn_job_data
    /\ UNCHANGED <<event, response, committed, all_components, project_id,
                   components_and_paths, i, component_locations, accsyn, log,
                   pending>>

\* Lines 397-436: the stop when nothing is left, else the job specification.
run_build ==
    /\ pc = "build"
    /\ \E ok \in BOOLEAN :
        IF Len(components_and_paths) = 0
        THEN /\ job' = Info(job, "[ERROR] No components/additional files left")
             /\ UNCHANGED accsyn_job_data
             /\ IF ok
                THEN /\ notes' = WebMessage(notes,
                            "[ERROR] [ERROR] No components/additional files left")
                     /\ job_final_status' = "failed"
                     /\ pc' = "finally"
                     /\ UNCHANGED faulted
                ELSE /\ pc' = "except"
                     /\ faulted' = TRUE
                     /\ UNCHANGED <<notes, job_final_status>>
        ELSE /\ job' = Info(job, "Building Accsyn job")
             /\ UNCHANGED <<notes, job_final_status>>
             /\ IF ok
                THEN /\ accsyn_job_data' =
                            Tasks(components_and_paths, source_location_name,
                                  destination_location_name)
                     /\ pc' = "submit"
                     /\ UNCHANGED faulted
                ELSE /\ pc' = "except"
                     /\ faulted' = TRUE
                     /\ UNCHANGED accsyn_job_data
    /\ UNCHANGED <<event, response, committed, all_components, project_id,
                   components_and_paths, i, component_locations, accsyn, log,
                   pending>>

\* run_submit going on to the removal of the records without the create call.
run_submit_late ==
    /\ pc = "submit"
    /\ \E outcome \in {"ok", "before", "after"} :
        /\ IF outcome = "before"
           THEN /\ job' = Info(job, "Submitting job to Accsyn")
                /\ UNCHANGED <<accsyn, log>>
           ELSE /\ job' = Info(job, "Submitted, removing component from destination")
                /\ UNCHANGED <<accsyn, log>>
        /\ IF outcome = "ok"
           THEN /\ pc' = "predelete"
                /\ i' = 1
                /\ UNCHANGED faulted
           ELSE /\ pc' = "except"
                /\ faulted' = TRUE
                /\ UNCHANGED i
    /\ UNCHANGED <<event, response, committed, job_final_status,
                   all_components, project_id, components_and_paths,
                   accsyn_job_data, component_locations, notes, pending>>

\* Lines 439-445: the create call of the transfer engine, between two
\* reports; a failure before the call, or after it.
run_submit ==
    /\ pc = "submit"
    /\ \E outcome \in {"ok", "before", "after"} :
        /\ IF outcome = "before"
           THEN /\ job' = Info(job, "Submitting job to Accsyn")
                /\ UNCHANGED <<accsyn, log>>
           ELSE /\ job' = Info(job, "Submitted, removing component from destination")
                /\ accsyn' = [status |-> "running", tasks |-> accsyn_job_data]
                /\ log' = Append(log, Ev("submit", None))
        /\ IF outcome = "ok"
           THEN /\ pc' = "predelete"
                /\ i' = 1
                /\ UNCHANGED faulted
           ELSE /\ pc' = "except"
                /\ faulted' = TRUE
                /\ UNCHANGED i
    /\ UNCHANGED <<event, response, committed, job_final_status,
                   all_components, project_id, components_and_paths,
                   accsyn_job_data, component_locations, notes, pending>>

\* Lines 446-460: one turn of the loop that removes the component's record
\* at the destination; a failure is caught per item, unless the warning in
\* the handler fails too.
run_predelete ==
    /\ pc = "predelete"
    /\ IF i > Len(components_and_paths)
       THEN /\ pc' = "sleep"
            /\ UNCHANGED <<job, i, component_locations, log, faulted>>
       ELSE LET item == components_and_paths[i]
                c == item.component
            IN  IF c = None
                THEN /\ i' = i + 1
                     /\ UNCHANGED <<pc, job, component_locations, log, faulted>>
                ELSE \E outcome \in {"ok", "caught", "escaped"} :
                      IF outcome = "ok"
                      THEN LET found == FirstAt(component_locations[c],
                                                destination_location_name) # 0
                           IN  /\ component_locations' =
                                      [component_locations EXCEPT ![c] =
                                          DeleteIfFound(@, destination_location_name)]
                               /\ job' = IF found
                                         THEN Info(job, "(Post) Removing component")
                                         ELSE job
                               /\ log' = IF found
                                         THEN Append(log, Ev("delete", c))
                                         ELSE log
                               /\ i' = i + 1
                               /\ UNCHANGED <<pc, faulted>>
                      ELSE /\ job' = Info(job, "traceback")
                           /\ faulted' = TRUE
                           /\ UNCHANGED <<component_locations, log>>
                           /\ IF outcome = "caught"
                              THEN i' = i + 1 /\ pc' = pc
                              ELSE i' = i /\ pc' = "except"
    /\ UNCHANGED <<event, response, committed, job_final_status,
                   all_components, project_id, components_and_paths,
                   accsyn_job_data, accsyn, notes, pending>>

\* Line 463: time.sleep(2).
run_sleep ==
    /\ pc = "sleep"
    /\ pc' = "find"
    /\ UNCHANGED <<event, response, job, committed, job_final_status,
                   all_components, project_id, components_and_paths,
                   accsyn_job_data, i, component_locations, accsyn, notes,
                   log, faulted, pending>>

\* run_find without the assignment of 'failed' at line 479.
run_find_failed_kept ==
    /\ pc = "find"
    /\ accsyn # NoAccsynJob
    /\ \E ok \in BOOLEAN :
       \E st \in IF accsyn.status = "running" THEN EngineStatuses
                 ELSE {accsyn.status} :
        IF ~ok
        THEN /\ job' = Info(job, "progress")
             /\ pc' = "except"
             /\ faulted' = TRUE
             /\ UNCHANGED <<accsyn, notes, log, job_final_status>>
        ELSE /\ accsyn' = [accsyn EXCEPT !.status = st]
             /\ UNCHANGED faulted
             /\ IF st \notin TerminalStatuses
                THEN /\ job' = Info(job, "progress")
                     /\ pc' = "sleep"
                     /\ log' = Polled(log)
                     /\ UNCHANGED <<notes, job_final_status>>
                ELSE /\ pc' = "post"
                     /\ log' = Append(Polled(log), Ev("terminal", st))
                     /\ IF st = "done"
                        THEN /\ job' = Info(job, "Accsyn job finished successfully!")
                             /\ notes' = WebMessage(notes,
                                    "Accsyn job finished successfully!")
                             /\ UNCHANGED job_final_status
                        ELSE IF st = "aborted"
                        THEN /\ job' = Info(job, "[WARNING] Accsyn job were aborted.")
                             /\ notes' = WebMessage(notes,
                                    "[WARNING] Accsyn job were aborted.")
                             /\ UNCHANGED job_final_status
                        ELSE /\ job' = Info(job, "Accsyn job FAILED!")
                             /\ notes' = WebMessage(notes,
                                    "[ERROR] Accsyn job FAILED!")
                             /\ job_final_status' = job_final_status
    /\ UNCHANGED <<event, response, committed, all_components, project_id,
                   components_and_paths, accsyn_job_data, i,
                   component_locations, pending>>

\* run_find taking an aborted job for a failed one.
run_find_aborted_failed ==
    /\ pc = "find"
    /\ accsyn # NoAccsynJob
    /\ \E ok \in BOOLEAN :
       \E st \in IF accsyn.status = "running" THEN EngineStatuses
                 ELSE {accsyn.status} :
        IF ~ok
        THEN /\ job' = Info(job, "progress")
             /\ pc' = "except"
             /\ faulted' = TRUE
             /\ UNCHANGED <<accsyn, notes, log, job_final_status>>
        ELSE /\ accsyn' = [accsyn EXCEPT !.status = st]
             /\ UNCHANGED faulted
             /\ IF st \notin TerminalStatuses
                THEN /\ job' = Info(job, "progress")
                     /\ pc' = "sleep"
                     /\ log' = Polled(log)
                     /\ UNCHANGED <<notes, job_final_status>>
                ELSE /\ pc' = "post"
                     /\ log' = Append(Polled(log), Ev("terminal", st))
                     /\ IF st = "done"
                        THEN /\ job' = Info(job, "Accsyn job finished successfully!")
                             /\ notes' = WebMessage(notes,
                                    "Accsyn job finished successfully!")
                             /\ UNCHANGED job_final_status
                        ELSE IF st = "aborted"
                        THEN /\ job' = Info(job, "[WARNING] Accsyn job were aborted.")
                             /\ notes' = WebMessage(notes,
                                    "[WARNING] Accsyn job were aborted.")
                             /\ job_final_status' = "failed"
                        ELSE /\ job' = Info(job, "Accsyn job FAILED!")
                             /\ notes' = WebMessage(notes,
                                    "[ERROR] Accsyn job FAILED!")
                             /\ job_final_status' = "failed"
    /\ UNCHANGED <<event, response, committed, all_components, project_id,
                   components_and_paths, accsyn_job_data, i,
                   component_locations, pending>>

\* run_find without the break at line 480.
run_find_no_break ==
    /\ pc = "find"
    /\ accsyn # NoAccsynJob
    /\ \E ok \in BOOLEAN :
       \E st \in IF accsyn.status = "running" THEN EngineStatuses
                 ELSE {accsyn.status} :
        IF ~ok
        THEN /\ job' = Info(job, "progress")
             /\ pc' = "except"
             /\ faulted' = TRUE
             /\ UNCHANGED <<accsyn, notes, log, job_final_status>>
        ELSE /\ accsyn' = [accsyn EXCEPT !.status = st]
             /\ UNCHANGED faulted
             /\ IF st \notin TerminalStatuses
                THEN /\ job' = Info(job, "progress")
                     /\ pc' = "sleep"
                     /\ log' = Polled(log)
                     /\ UNCHANGED <<notes, job_final_status>>
                ELSE /\ pc' = "sleep"
                     /\ log' = Append(Polled(log), Ev("terminal", st))
                     /\ IF st = "done"
                        THEN /\ job' = Info(job, "Accsyn job finished successfully!")
                             /\ notes' = WebMessage(notes,
                                    "Accsyn job finished successfully!")
                             /\ UNCHANGED job_final_status
                        ELSE IF st = "aborted"
                        THEN /\ job' = Info(job, "[WARNING] Accsyn job were aborted.")
                             /\ notes' = WebMessage(notes,
                                    "[WARNING] Accsyn job were aborted.")
                             /\ UNCHANGED job_final_status
                        ELSE /\ job' = Info(job, "Accsyn job FAILED!")
                             /\ notes' = WebMessage(notes,
                                    "[ERROR] Accsyn job FAILED!")
                             /\ job_final_status' = "failed"
    /\ UNCHANGED <<event, response, committed, all_components, project_id,
                   components_and_paths, accsyn_job_data, i,
                   component_locations, pending>>

\* Lines 464-480: one poll of the transfer engine, which answers with any
\* status while its job runs and with the terminal status from then on.  A
\* call that raises (find_one, or the commit of a report) leaves the status
\* unrecorded and goes to the handler.
run_find ==
    /\ pc = "find"
    /\ accsyn # NoAccsynJob
    /\ \E ok \in BOOLEAN :
       \E st \in IF accsyn.status = "running" THEN EngineStatuses
                 ELSE {accsyn.status} :
        IF ~ok
        THEN /\ job' = Info(job, "progress")
             /\ pc' = "except"
             /\ faulted' = TRUE
             /\ UNCHANGED <<accsyn, notes, log, job_final_status>>
        ELSE /\ accsyn' = [accsyn EXCEPT !.status = st]
             /\ UNCHANGED faulted
             /\ IF st \notin TerminalStatuses
                THEN /\ job' = Info(job, "progress")
                     /\ pc' = "sleep"
                     /\ log' = Polled(log)
                     /\ UNCHANGED <<notes, job_final_status>>
                ELSE /\ pc' = "post"
                     /\ log' = Append(Polled(log), Ev("terminal", st))
                     /\ IF st = "done"
                        THEN /\ job' = Info(job, "Accsyn job finished successfully!")
                             /\ notes' = WebMessage(notes,
                                    "Accsyn job finished successfully!")
                             /\ UNCHANGED job_final_status
                        ELSE IF st = "aborted"
                        THEN /\ job' = Info(job, "[WARNING] Accsyn job were aborted.")
                             /\ notes' = WebMessage(notes,
                                    "[WARNING] Accsyn job were aborted.")
                             /\ UNCHANGED job_final_status
                        ELSE /\ job' = Info(job, "Accsyn job FAILED!")
                             /\ notes' = WebMessage(notes,
                                    "[ERROR] Accsyn job FAILED!")
                             /\ job_final_status' = "failed"
    /\ UNCHANGED <<event, response, committed, all_components, project_id,
                   components_and_paths, accsyn_job_data, i,
                   component_locations, pending>>

\* Lines 483-485: the test that guards the records' creation.
run_post ==
    /\ pc = "post"
    /\ IF job_final_status = "done"
       THEN \E ok \in BOOLEAN :
             /\ job' = Info(job, "(Post) Adding components to destination")
             /\ IF ok
                THEN pc' = "postitem" /\ i' = 1 /\ UNCHANGED faulted
                ELSE pc' = "except" /\ faulted' = TRUE /\ UNCHANGED i
       ELSE /\ pc' = "postdone"
            /\ UNCHANGED <<job, i, faulted>>
    /\ UNCHANGED <<event, response, committed, job_final_status,
                   all_components, project_id, components_and_paths,
                   accsyn_job_data, component_locations, accsyn, notes, log,
                   pending>>

\* Lines 486-513: one turn of the loop that removes the record found at the
\* destination and creates the record at the raw path.
run_postitem ==
    /\ pc = "postitem"
    /\ IF i > Len(components_and_paths)
       THEN /\ pc' = "postdone"
            /\ UNCHANGED <<job, i, component_locations, log, faulted>>
       ELSE LET item == components_and_paths[i]
                c == item.component
            IN  IF c = None
                THEN /\ i' = i + 1
                     /\ UNCHANGED <<pc, job, component_locations, log, faulted>>
                ELSE \E outcome \in {"ok", "caught", "escaped"} :
                      IF outcome = "ok"
                      THEN LET found == FirstAt(component_locations[c],
                                                destination_location_name) # 0
                           IN  /\ component_locations' =
                                      [component_locations EXCEPT ![c] =
                                          Append(DeleteIfFound(@, destination_location_name),
                                                 NewRecord(item, destination_location_name))]
                               /\ job' = Info(job, "(Post) Adding component")
                               /\ log' = (IF found
                                          THEN Append(log, Ev("delete", c))
                                          ELSE log) \o <<Ev("create", c)>>
                               /\ i' = i + 1
                               /\ UNCHANGED <<pc, faulted>>
                      ELSE /\ job' = Info(job, "traceback")
                           /\ faulted' = TRUE
                           /\ log' = Append(log, Ev("itemfail", c))
                           /\ UNCHANGED component_locations
                           /\ IF outcome = "caught"
                              THEN i' = i + 1 /\ pc' = pc
                              ELSE i' = i /\ pc' = "except"
    /\ UNCHANGED <<event, response, committed, job_final_status,
                   all_components, project_id, components_and_paths,
                   accsyn_job_data, accsyn, notes, pending>>

\* Line 514: the last report of the try block.
run_postdone ==
    /\ pc = "postdone"
    /\ job' = Info(job, "(Post) Done...")
    /\ \E ok \in BOOLEAN :
        IF ok
        THEN pc' = "finally" /\ UNCHANGED faulted
        ELSE pc' = "except" /\ faulted' = TRUE
    /\ UNCHANGED <<event, response, committed, job_final_status,
                   all_components, project_id, components_and_paths,
                   accsyn_job_data, i, component_locations, accsyn, notes,
                   log, pending>>

\* run_except marking the run failed without the message to the user.
run_except_silent ==
    /\ pc = "except"
    /\ \E ok \in BOOLEAN :
        IF ok
        THEN /\ job' = Info(job, "Accsyn send CRASHED!")
             /\ notes' = notes
             /\ job_final_status' = "failed"
             /\ UNCHANGED <<faulted, pending>>
        ELSE /\ job' = Info(job, "traceback")
             /\ faulted' = TRUE
             /\ pending' = TRUE
             /\ UNCHANGED <<notes, job_final_status>>
    /\ pc' = "finally"
    /\ UNCHANGED <<event, response, committed, all_components, project_id,
                   components_and_paths, accsyn_job_data, i,
                   component_locations, accsyn, log>>

\* Lines 516-519: the handler of the try block; its own reports may raise,
\* and then the assignment of 'failed' is not reached.
run_except ==
    /\ pc = "except"
    /\ \E ok \in BOOLEAN :
        IF ok
        THEN /\ job' = Info(job, "Accsyn send CRASHED!")
             /\ notes' = WebMessage(notes, "[ERROR] Accsyn send CRASHED!")
             /\ job_final_status' = "failed"
             /\ UNCHANGED <<faulted, pending>>
        ELSE /\ job' = Info(job, "traceback")
             /\ faulted' = TRUE
             /\ pending' = TRUE
             /\ UNCHANGED <<notes, job_final_status>>
    /\ pc' = "finally"
    /\ UNCHANGED <<event, response, committed, all_components, project_id,
                   components_and_paths, accsyn_job_data, i,
                   component_locations, accsyn, log>>

\* run_finally writing the status only when the run failed.
run_finally_on_failure ==
    /\ pc = "finally"
    /\ job' = IF job_final_status = "failed"
              THEN [job EXCEPT !.status = job_final_status] ELSE job
    /\ log' = IF job_final_status = "failed"
              THEN Append(log, Ev("status", job_final_status)) ELSE log
    /\ \E ok \in BOOLEAN :
        IF ok
        THEN committed' = job_final_status /\ UNCHANGED <<faulted, pending>>
        ELSE faulted' = TRUE /\ pending' = TRUE /\ UNCHANGED committed
    /\ pc' = "ended"
    /\ UNCHANGED <<event, response, job_final_status, all_components,
                   project_id, components_and_paths, accsyn_job_data, i,
                   component_locations, accsyn, notes>>

\* run_finally followed by the last report of the try block.
run_finally_then_report ==
    /\ pc = "finally"
    /\ job' = [job EXCEPT !.status = job_final_status]
    /\ log' = Append(log, Ev("status", job_final_status))
    /\ \E ok \in BOOLEAN :
        IF ok
        THEN committed' = job_final_status /\ UNCHANGED <<faulted, pending>>
        ELSE faulted' = TRUE /\ pending' = TRUE /\ UNCHANGED committed
    /\ pc' = IF \E k \in 1..Len(log) : log[k].ev = "status"
             THEN "ended" ELSE "postdone"
    /\ UNCHANGED <<event, response, job_final_status, all_components,
                   project_id, components_and_paths, accsyn_job_data, i,
                   component_locations, accsyn, notes>>

\* Lines 520-525: the finally clause: the status and its commit.
run_finally ==
    /\ pc = "finally"
    /\ job' = [job EXCEPT !.status = job_final_status]
    /\ log' = Append(log, Ev("status", job_final_status))
    /\ \E ok \in BOOLEAN :
        IF ok
        THEN committed' = job_final_status /\ UNCHANGED <<faulted, pending>>
        ELSE faulted' = TRUE /\ pending' = TRUE /\ UNCHANGED committed
    /\ pc' = "ended"
    /\ UNCHANGED <<event, response, job_final_status, all_components,
                   project_id, components_and_paths, accsyn_job_data, i,
                   component_locations, accsyn, notes>>

worker ==
    \/ run_create
    \/ run_fetch
    \/ run_harvest
    \/ run_check
    \/ run_resolve
    \/ run_build
    \/ run_submit
    \/ run_predelete
    \/ run_sleep
    \/ run_find
    \/ run_post
    \/ run_postitem
    \/ run_postdone
    \/ run_except
    \/ run_finally

Next == launch \/ worker

Spec == Init /\ [][Next]_vars

\* The worker thread keeps running once started: every step of run that can
\* be taken is taken.  Nothing is assumed of the transfer engine's answers.
FairSpec == Spec /\ WF_vars(worker)

\* ------------------------------------------------- raw paths of any shape
\* The characters of the raw paths below: the letters of the project code in
\* both cases, the separator, and U+0130.
PathChars == {"S", "s", "h", "/", "Idot"}
RawPaths == SeqsUpTo(PathChars, MaxLen)

\* A launch on the task T, whose component c2 has one record at the source
\* location, from studio-a to studio-b: the record's path and the one
\* additional-file line are the same raw path, any of RawPaths.
InitPaths ==
    /\ \E s \in RawPaths :
          /\ event = [selection |-> <<[entityType |-> "task", entityId |-> "T"]>>,
                      hasValues |-> TRUE,
                      values |-> [source_location |-> "studio-a",
                                  destination_location |-> "studio-b",
                                  additional_files |-> <<s>>]]
          /\ component_locations = [c1 |-> OnlyA, c2 |-> <<Rec("studio-a", s)>>]
    /\ response = NoResponse
    /\ pc = "idle"
    /\ job = NoJob
    /\ committed = "none"
    /\ job_final_status = "none"
    /\ all_components = Unbound
    /\ project_id = None
    /\ components_and_paths = UnboundItems
    /\ accsyn_job_data = <<>>
    /\ i = 0
    /\ accsyn = NoAccsynJob
    /\ notes = <<>>
    /\ log = <<>>
    /\ faulted = FALSE
    /\ pending = FALSE

PathSpec == InitPaths /\ [][Next]_vars

\* --------------------------------------------------------------- history
Events_(e) == {k \in 1..Len(log) : log[k].ev = e}
StatusWrites == Cardinality(Events_("status"))
Ended == pc = "ended"
ItemsWithComponent ==
    {k \in 1..Len(components_and_paths) : components_and_paths[k].component # None}
RecordsAt(c, loc) ==
    {m \in 1..Len(component_locations[c]) : component_locations[c][m].location = loc}

\* ----------------------------------------------------------------- claims
\* C1: a run that created the TrackingJobRecord writes the record's status
\* exactly once, in the finalization step, to done or failed, at whatever
\* stage it stopped or threw; before that step the status is never written.
C1_StatusWrittenOnceByFinalization ==
    job # NoJob =>
        IF Ended
        THEN /\ StatusWrites = 1
             /\ log[Len(log)] = Ev("status", job.status)
             /\ job.status \in {"done", "failed"}
        ELSE /\ StatusWrites = 0
             /\ job.status = "running"

\* A run that threw after the submission of the job and was finalized.
C1_Witness ==
    /\ Ended
    /\ faulted
    /\ Events_("submit") # {}
    /\ StatusWrites = 1
    /\ job.status = "failed"

\* C2: the TrackingJobRecord eventually leaves the running status, whatever
\* the transfer engine answers.
C2_EventuallyLeavesRunning ==
    (job.status = "running") ~> (job.status # "running")

\* C3: a launch whose source and destination location names are equal
\* answers success=false, starts no worker and creates no TrackingJobRecord.
C3_SameLocationRejected ==
    (event.hasValues /\ source_location_name = destination_location_name) =>
        /\ pc = "idle"
        /\ job = NoJob
        /\ committed = "none"
        /\ response # NoResponse =>
               (response.kind = "result" /\ response.success = FALSE)

\* The launch of such a request has answered.
C3_Witness ==
    /\ event.hasValues
    /\ source_location_name = destination_location_name
    /\ response.kind = "result"
    /\ response.success = FALSE

\* C4: after a terminal poll that saw aborted, the run creates no
\* ComponentLocationRecord and deletes none.
C4_AbortedSkipsReconciliation ==
    \A k \in Events_("terminal") :
        log[k].c = "aborted" =>
            \A m \in (k + 1)..Len(log) : log[m].ev \notin {"create", "delete"}

\* C5 as stated: the pre-transfer deletion of a destination record comes
\* before the job's submission to the transfer engine.
C5_DeleteBeforeSubmit ==
    \A k \in Events_("delete") :
        (\A m \in 1..k : log[m].ev # "terminal") =>
            \A m \in 1..k : log[m].ev # "submit"

\* C5 as amended: the pre-transfer deletion of a destination record comes
\* after the job's submission (the create call of the transfer engine has
\* returned) and before the first poll of the job's status.
C5_DeleteAfterSubmit ==
    \A k \in Events_("delete") :
        (\A m \in 1..k : log[m].ev # "terminal") =>
            /\ \E m \in 1..k : log[m].ev = "submit"
            /\ \A m \in 1..k : log[m].ev # "poll"

\* A destination record has been deleted and the job has since been polled.
C5_Witness ==
    \E k \in Events_("delete") :
        /\ \A m \in 1..k : log[m].ev # "terminal"
        /\ \E m \in (k + 1)..Len(log) : log[m].ev = "poll"

\* C6: in a run where no platform or engine call raises and the engine
\* reports done, the record ends done; every resolved item with a component
\* has exactly one record at the destination, holding the item's raw path;
\* every record deleted has been recreated; one record is created per item
\* with a component and none is created or deleted for an additional file.
C6_DoneReconciled ==
    (Ended /\ ~faulted /\ Ev("terminal", "done") \in {log[k] : k \in 1..Len(log)}) =>
        /\ job.status = "done"
        /\ \A k \in ItemsWithComponent :
              LET c == components_and_paths[k].component
                  at == RecordsAt(c, destination_location_name)
              IN  /\ Cardinality(at) = 1
                  /\ \A m \in at :
                        component_locations[c][m] =
                            Rec(destination_location_name,
                                components_and_paths[k].p_raw)
        /\ \A k \in Events_("delete") :
              \E m \in (k + 1)..Len(log) : log[m] = Ev("create", log[k].c)
        /\ Cardinality(Events_("create")) = Cardinality(ItemsWithComponent)
        /\ \A k \in Events_("create") \cup Events_("delete") :
              \E n \in ItemsWithComponent :
                  components_and_paths[n].component = log[k].c

\* Two components sent, a record deleted and recreated, and an additional
\* file in the job.
C6_Witness ==
    /\ Ended
    /\ ~faulted
    /\ Ev("terminal", "done") \in {log[k] : k \in 1..Len(log)}
    /\ Cardinality(Events_("create")) >= 2
    /\ Events_("delete") # {}
    /\ \E k \in 1..Len(components_and_paths) :
          components_and_paths[k].component = None

\* C7: when the harvest is empty, the transfer engine's create is never
\* called, whatever the additional-files text holds, and the run, when no
\* platform call raises, ends with the record's status failed.
C7_EmptyHarvestFails ==
    all_components = <<>> =>
        /\ accsyn = NoAccsynJob
        /\ Events_("submit") = {}
        /\ (Ended /\ ~faulted) => job.status = "failed"

\* An empty harvest of a non-empty selection, with an additional file that
\* holds the project code, has been finalized.
C7_Witness ==
    /\ Ended
    /\ ~faulted
    /\ all_components = <<>>
    /\ Len(event.selection) > 0
    /\ LineOk \in {event.values.additional_files[k] :
                      k \in 1..Len(event.values.additional_files)}
    /\ job.status = "failed"

\* C8: when no item is left after the path resolution, no job is submitted,
\* no ComponentLocationRecord is deleted or created, and the run, when no
\* platform call raises, ends with the record's status failed.
C8_NoItemsFails ==
    components_and_paths = <<>> =>
        /\ accsyn = NoAccsynJob
        /\ \A k \in 1..Len(log) : log[k].ev = "status"
        /\ (Ended /\ ~faulted) => job.status = "failed"

\* Components were harvested, none was left, and the run has been finalized.
C8_Witness ==
    /\ Ended
    /\ ~faulted
    /\ components_and_paths = <<>>
    /\ Len(all_components) > 0
    /\ job.status = "failed"

\* C9: a run in which a failure was raised, at any point from its start,
\* ends with no exception left, the crash message published and the
\* record's status failed.
C9_AnyFailureReachesFinalization ==
    (Ended /\ faulted) =>
        /\ ~pending
        /\ "[ERROR] Accsyn send CRASHED!" \in {notes[k] : k \in 1..Len(notes)}
        /\ job.status = "failed"

\* C10: once a poll saw failed, no ComponentLocationRecord is created, an
\* error message has been published to the user, and the run ends with the
\* record's status failed.
C10_EngineFailed ==
    \A k \in Events_("terminal") :
        log[k].c = "failed" =>
            /\ \A m \in (k + 1)..Len(log) : log[m].ev # "create"
            /\ "[ERROR] Accsyn job FAILED!" \in {notes[n] : n \in 1..Len(notes)}
            /\ Ended => job.status = "failed"

\* A run whose job the engine reported failed has been finalized.
C10_Witness ==
    /\ Ended
    /\ Ev("terminal", "failed") \in {log[k] : k \in 1..Len(log)}
    /\ ItemsWithComponent # {}
    /\ job.status = "failed"

\* C11: once a poll saw aborted, the warning message has been published to
\* the user, and the run, when no platform call raises, ends with the
\* record's status done, not failed.
C11_AbortedEndsDone ==
    \A k \in Events_("terminal") :
        log[k].c = "aborted" =>
            /\ "[WARNING] Accsyn job were aborted." \in
                   {notes[n] : n \in 1..Len(notes)}
            /\ job_final_status = "done" \/ faulted
            /\ (Ended /\ ~faulted) => job.status = "done"

\* A run whose job the engine reported aborted has been finalized.
C11_Witness ==
    /\ Ended
    /\ ~faulted
    /\ Ev("terminal", "aborted") \in {log[k] : k \in 1..Len(log)}
    /\ job.status = "done"
    /\ committed = "done"

\* The raw path the platform can give for a component: the path of a record
\* at a location that is not excluded, whose lookup does not raise and whose
\* path is not empty, the earliest such record; <<>> when there is none.
Usable(rec) ==
    /\ rec.location \notin excluded_locations
    /\ ~rec.raises
    /\ rec.path # <<>>
RawPathOf(recs) ==
    LET good == {k \in 1..Len(recs) : Usable(recs[k])}
    IN  IF good = {} THEN <<>>
        ELSE recs[CHOOSE k \in good : \A n \in good : k <= n].path
\* The path holds the token at some position, whatever the case.
HoldsToken(path, token) ==
    \E k \in 1..Len(path) :
        /\ k + Len(token) - 1 <= Len(path)
        /\ Lower(SubSeq(path, k, k + Len(token) - 1)) = Lower(token)
Survives(c) ==
    /\ RawPathOf(component_locations[c]) # <<>>
    /\ HoldsToken(RawPathOf(component_locations[c]), ProjectName)
LineSurvives(l) == l # <<>> /\ HoldsToken(l, ProjectName)
ItemComponents ==
    [k \in 1..Len(components_and_paths) |-> components_and_paths[k].component]
ItemRawPaths ==
    [k \in 1..Len(components_and_paths) |-> components_and_paths[k].p_raw]

\* C12: the resolved set holds the harvested components whose raw path
\* holds the project code, in order, then the additional-file lines that
\* hold it; everything else is left out and the run goes on: a job submitted
\* for a non-empty set has one task per item, in the items' order, a run in
\* which no platform call raises submits it, and ends with the record's
\* status done when the engine reports done.
C12_UnresolvableItemsExcluded ==
    /\ pc \in {"build", "submit"} =>
          /\ ItemComponents =
                 SelectSeq(all_components, Survives)
                   \o [k \in 1..Len(SelectSeq(event.values.additional_files,
                                              LineSurvives)) |-> None]
          /\ SubSeq(ItemRawPaths,
                    Len(SelectSeq(all_components, Survives)) + 1,
                    Len(ItemRawPaths))
                 = SelectSeq(event.values.additional_files, LineSurvives)
    /\ accsyn # NoAccsynJob =>
          /\ Len(accsyn.tasks) = Len(components_and_paths)
          /\ Len(accsyn.tasks) > 0
          /\ \A k \in 1..Len(accsyn.tasks) :
                accsyn.tasks[k].source[2] = components_and_paths[k].p
    /\ (Ended /\ ~faulted /\ components_and_paths \notin {UnboundItems, <<>>}) =>
          /\ Events_("submit") # {}
          /\ Ev("terminal", "done") \in {log[k] : k \in 1..Len(log)}
                 => job.status = "done"

\* The harvested components had no usable path, a typed line held the
\* project code, and the job of that one line was transferred.
C12_Witness ==
    /\ Ended
    /\ ~faulted
    /\ all_components \notin {Unbound, <<>>}
    /\ \A k \in 1..Len(all_components) :
          component_locations[all_components[k]] = OnlyBroken
    /\ Len(accsyn.tasks) = 1
    /\ components_and_paths[1].component = None
    /\ components_and_paths[1].p_raw = LineOk
    /\ Ev("terminal", "done") \in {log[k] : k \in 1..Len(log)}
    /\ job.status = "done"

\* C13: a harvested component whose only location record is at the
\* unmanaged location, with a path that is not empty and holds the project
\* code, is an item of the resolved set.
C13_UnmanagedIsPathSource ==
    pc \in {"build", "submit"} =>
        \A k \in 1..Len(all_components) :
            LET recs == component_locations[all_components[k]]
            IN  ( /\ Len(recs) = 1
                  /\ recs[1].location = "ftrack.unmanaged"
                  /\ ~recs[1].raises
                  /\ recs[1].path # <<>>
                  /\ HoldsToken(recs[1].path, ProjectName) )
                => \E n \in 1..Len(components_and_paths) :
                      /\ components_and_paths[n].component = all_components[k]
                      /\ components_and_paths[n].p_raw = recs[1].path

\* The positions of the raw path at which the token stands, whatever the case.
TokenAt(path, token) ==
    {k \in 1..Len(path) :
        /\ k + Len(token) - 1 <= Len(path)
        /\ Lower(SubSeq(path, k, k + Len(token) - 1)) = Lower(token)}
\* The raw path from the leftmost of these positions on.
SuffixAtToken(path, token) ==
    SubSeq(path, CHOOSE k \in TokenAt(path, token) :
                     \A n \in TokenAt(path, token) : k <= n, Len(path))

\* C14: the relative path of every item whose raw path holds the project
\* code, whatever the case, is the raw path from the leftmost position of
\* the code on, with the characters of the raw path as they are.
C14_RelativePathIsSuffix ==
    components_and_paths # UnboundItems =>
        \A k \in 1..Len(components_and_paths) :
            TokenAt(components_and_paths[k].p_raw, ProjectName) # {} =>
                components_and_paths[k].p =
                    SuffixAtToken(components_and_paths[k].p_raw, ProjectName)

\* The turn of the removal loop at hand is the second of two in a row for
\* the same component, and the first one ran without a failure.
SecondPassInARow ==
    /\ pc = "predelete"
    /\ ~faulted
    /\ 1 < i
    /\ i <= Len(components_and_paths)
    /\ components_and_paths[i].component # None
    /\ components_and_paths[i - 1].component = components_and_paths[i].component

\* C15: the second of two removal passes in a row for the same component
\* and destination leaves the ComponentLocationRecords as the first pass
\* left them, with at most one record for the pair.
C15_PreReconciliationIdempotent ==
    [][SecondPassInARow =>
          /\ component_locations' = component_locations
          /\ Cardinality(RecordsAt(components_and_paths[i].component,
                                   destination_location_name)) <= 1
      ]_vars

\* Two passes in a row for one component have run, the first of which
\* deleted the component's record at the destination.
C15_Witness ==
    /\ pc = "predelete"
    /\ ~faulted
    /\ i = 3
    /\ components_and_paths[1].component # None
    /\ components_and_paths[1].component = components_and_paths[2].component
    /\ log[Len(log)] = Ev("delete", components_and_paths[1].component)
    /\ RecordsAt(components_and_paths[1].component,
                 destination_location_name) = {}
    /\ Len(component_locations[components_and_paths[1].component]) > 0

\* The messages that error(s) publishes to the user.
ErrorNotes ==
    {"[ERROR] No components found!",
     "[ERROR] [ERROR] No components/additional files left",
     "[ERROR] Accsyn job FAILED!",
     "[ERROR] Accsyn send CRASHED!"}

\* C16: from the moment a run is marked failed, so before and after the
\* failed status is written to the TrackingJobRecord, the latest message
\* published to the user is an error message.
C16_FailedRunsPublishedError ==
    (job_final_status = "failed" \/ job.status = "failed"
        \/ committed = "failed") =>
        /\ notes # <<>>
        /\ notes[Len(notes)] \in ErrorNotes

\* A run whose source location does not exist has been finalized as failed.
C16_Witness ==
    /\ Ended
    /\ ~faulted
    /\ source_location_name \notin Locations
    /\ committed = "failed"
    /\ notes = <<"[ERROR] Accsyn send CRASHED!">>

\* A step of the reconciliation after the transfer in which a platform call
\* for the item at hand raised.
ItemFailureStep ==
    /\ pc = "postitem"
    /\ Len(log') = Len(log) + 1
    /\ log'[Len(log')].ev = "itemfail"

\* C17: a platform failure while one item is reconciled after the transfer
\* is caught: the loop goes on with the next item and the run is still to
\* end done.
C17_ItemFailureIsCaught ==
    [][ItemFailureStep =>
          /\ pc' = "postitem"
          /\ i' = i + 1
          /\ job_final_status' = "done"
          /\ ~pending'
      ]_vars

\* The items of the resolved set that stand for the component c.
ItemsOf(c) ==
    {k \in 1..Len(components_and_paths) : components_and_paths[k].component = c}

\* C18: the raw path of a component's item is the path of the component's
\* first location record, in stored order, that is not at an excluded
\* location, whose lookup does not raise and whose path is not empty,
\* whatever the records after it hold; a component with no such record has
\* no item.
C18_FirstUsableLocationWins ==
    pc \in {"build", "submit"} =>
        \A n \in 1..Len(all_components) :
            LET c == all_components[n]
                recs == component_locations[c]
            IN  IF \E k \in 1..Len(recs) : Usable(recs[k])
                THEN \A m \in ItemsOf(c) :
                        \E k \in 1..Len(recs) :
                            /\ Usable(recs[k])
                            /\ \A j \in 1..(k - 1) : ~Usable(recs[j])
                            /\ components_and_paths[m].p_raw = recs[k].path
                ELSE ItemsOf(c) = {}

\* The paths are resolved: one component has two usable records with two
\* paths and its item holds the first, and one harvested component has
\* records and no item.
C18_Witness ==
    /\ pc = "submit"
    /\ \E n \in 1..Len(all_components) :
          LET recs == component_locations[all_components[n]]
          IN  /\ Len(recs) = 2
              /\ Usable(recs[1]) /\ Usable(recs[2])
              /\ recs[1].path # recs[2].path
              /\ \E m \in ItemsOf(all_components[n]) :
                    components_and_paths[m].p_raw = recs[1].path
    /\ \E n \in 1..Len(all_components) :
          /\ ItemsOf(all_components[n]) = {}
          /\ Len(component_locations[all_components[n]]) > 0

\* C19: every component occurs at most once in the harvested collection,
\* and at most one task of the submitted job stands for a component.
C19_HarvestHasNoDuplicates ==
    /\ all_components # Unbound =>
          \A k, n \in 1..Len(all_components) :
              all_components[k] = all_components[n] => k = n
    /\ accsyn # NoAccsynJob =>
          \A c \in Components : Cardinality(ItemsOf(c)) <= 1

\* The step of the last report of a run in which nothing has failed and
\* that is to end done: info('(Post) Done...'), whose only platform call is
\* the commit of the description.
LastReportStep ==
    /\ pc = "postdone"
    /\ ~faulted
    /\ job_final_status = "done"

\* C20: a report whose commit of the description fails does not stop the
\* pipeline or change the outcome: after the last report the run goes to
\* its finalization, still to end done.
C20_ReportFailureIsHarmless ==
    [][LastReportStep =>
          /\ pc' = "finally"
          /\ job_final_status' = "done"
      ]_vars

\* C21: the worker sleeps and polls again only while the status it observed
\* is not terminal; the poll that observes done, failed or aborted is the
\* last one and leaves the loop; and, the worker's steps being taken, a run
\* whose poll observed a terminal status is eventually finalized.
C21_TerminalPollEndsLoop ==
    /\ [](pc \in {"sleep", "find"} =>
             /\ accsyn.status \notin TerminalStatuses
             /\ Events_("terminal") = {})
    /\ [](Cardinality(Events_("terminal")) <= 1)
    /\ [][pc = "find" =>
             /\ pc' = "sleep" => accsyn'.status \notin TerminalStatuses
             /\ accsyn'.status \in TerminalStatuses => pc' = "post"
         ]_vars
    /\ (Events_("terminal") # {}) ~> (Ended /\ StatusWrites = 1)

\* A submitted job was polled, a poll observed a terminal status, and the
\* run has been finalized with its status committed.
C21_Witness ==
    /\ Ended
    /\ Events_("submit") # {}
    /\ \E k \in Events_("poll") : \E n \in Events_("terminal") : k < n
    /\ accsyn.status \in TerminalStatuses
    /\ StatusWrites = 1
    /\ committed = job.status

\* C22: the write of the status in the finalization step is the worker's
\* last write: from then on the run has ended, the status entry closes the
\* history of writes, and no step changes the TrackingJobRecord, what the
\* platform has committed of it, the transfer engine's job or a
\* ComponentLocationRecord.
C22_NothingWrittenAfterFinalization ==
    /\ [](StatusWrites >= 1 =>
             /\ Ended
             /\ log[Len(log)].ev = "status"
             /\ job.status \in {"done", "failed"})
    /\ [][StatusWrites >= 1 =>
             /\ job' = job
             /\ committed' = committed
             /\ accsyn' = accsyn
             /\ component_locations' = component_locations
             /\ notes' = notes
         ]_vars

\* A run that submitted a job and created a ComponentLocationRecord has
\* been finalized, the status being the last thing written.
C22_Witness ==
    /\ Ended
    /\ StatusWrites = 1
    /\ Events_("submit") # {}
    /\ Events_("create") # {}
    /\ log[Len(log)] = Ev("status", job.status)
    /\ committed = job.status
====
